---- MODULE Spec2Model ----
(***************************************************************************)
(* A model of httpx-go's resilience engine: the circuit breaker            *)
(* (CircuitBreaker: NewCircuitBreaker, Execute, OnSuccess, OnFailure,      *)
(* PreRequest), the retry loop of Request.Exec, with the transport         *)
(* (Client.exec), the request context and the retry timer as the           *)
(* environment, the functions of retry.go (BackoffWithJitter,              *)
(* ParseRetryHeader, defaultRetryCondition), the response body             *)
(* (decompressor registry, wrapDecompressor, Bytes, Decode,                *)
(* MultiReadBody), the request body (DefaultRequestHook,                   *)
(* handleRequestBody, buildRequest), the breaker's OnSuccess and OnFailure *)
(* called from several goroutines, and the earlier, polling Request.Exec.  *)
(*                                                                         *)
(* The breaker's clock counts whole ticks (one tick = one second).  The    *)
(* durations of retry.go are time.Duration values, counted in nanoseconds. *)
(***************************************************************************)
EXTENDS Integers, Sequences, FiniteSets, TLC

(***************************************************************************)
(* Bounds of the model.                                                    *)
(***************************************************************************)
\* the clock runs from 0 to MaxTime
MaxTime == 4
\* BreakerConfig.FailureThreshold is drawn from 0..MaxThreshold
MaxThreshold == 2
\* BreakerConfig.Timeout is drawn from 0..MaxTimeout
MaxTimeout == 1
\* OnSuccess is not called in Closed once successCount has reached MaxSuccess
MaxSuccess == 2
\* OnFailure is called at most MaxFailureCalls times
MaxFailureCalls == 4
\* Retry.Count is drawn from -1..MaxCount
MaxCount == 2
\* Exec is called at most MaxExecs times on one request
MaxExecs == 2
\* the response hooks of a request number 0..MaxHooks
MaxHooks == 1
\* a backoff's min and max are drawn from 1..MaxWait nanoseconds
MaxWait == 3
\* NextWaitDuration is called with attempt in 0..MaxAttempt
MaxAttempt == 2
\* SetDecompressor is called at most MaxPuts times
MaxPuts == 2
\* at most MaxResponses responses are built
MaxResponses == 1
\* at most MaxBodyCalls calls of Bytes, Decode and MultiReadBody are made
MaxBodyCalls == 2
\* Client.exec is called at most MaxSends times on a request with a body
MaxSends == 3
\* MaxGoroutines goroutines call OnSuccess and OnFailure on one breaker
MaxGoroutines == 2
\* each of them makes at most MaxRaceCalls calls
MaxRaceCalls == 2
\* the PollLimit of the earlier Exec is drawn from 0..MaxPollLimit
MaxPollLimit == 2

(***************************************************************************)
(* Circuit breaker: constants and state.                                   *)
(***************************************************************************)
StateClosed == 0
StateOpen == 1
StateHalfOpen == 2

defaultFailureThreshold == 3
defaultSuccessThreshold == 1
defaultTimeout == 2

VARIABLES
    config,         \* cb.config, as NewCircuitBreaker left it
    state,          \* cb.state
    failureCount,   \* cb.failureCount (a uint32: the bounds keep it far from 2^32)
    successCount,   \* cb.successCount (a uint32, likewise)
    lastFailureAt,  \* cb.lastFailureAt: the dynamic type and value it holds
    now,            \* the clock time.Now() reads
    nFailure,       \* history: the number of OnFailure calls so far
    streak,         \* history: the OnFailure calls since the last OnSuccess call
    openedAt,       \* history: the clock when the state last became Open
    last            \* history: the last breaker call, how it began and ended

breakerVars ==
    <<config, state, failureCount, successCount, lastFailureAt, now,
      nFailure, streak, openedAt, last>>

(***************************************************************************)
(* Request.Exec: constants and state.                                      *)
(***************************************************************************)
Methods == {"GET", "PUT", "POST", "PATCH"}
Statuses == {0, 200, 404, 429, 501, 503}
\* The errors Client.exec can return, by what defaultRetryCondition sees in
\* them: a certificate verification error; a url.Error whose message names
\* redirects, an invalid header or an unsupported scheme; a url.Error that is
\* Temporary(); any other url.Error; any other error.
ErrKinds == {"cert", "urlPerm", "urlTemp", "urlOther", "plain"}

VARIABLES
    method,         \* r.Method
    allowNonIdempotentRetry,    \* r.AllowNonIdempotentRetry
    isRetry,        \* r.IsRetry
    retry,          \* r.retry: nil, or its Count and whether Cond is set
    Attempt,        \* r.Attempt, kept from one Exec call to the next
    ctx,            \* r.Context(): live, or done with its Err()
    pc,             \* where Exec stands
    attempt,        \* Exec's loop variable
    res,            \* Exec's res
    err,            \* Exec's err
    timerFired,     \* whether the timer of line 234 has fired
    configured,     \* history: r.retry as the caller set it
    execs,          \* history: the number of Exec calls begun
    calls,          \* history: the r.client.exec calls of this Exec call
    waits,          \* history: the timers this Exec call has started
    consulted,      \* history: the retry decisions taken (lines 215-219)
    asked,          \* history: Cond's verdict in the last decision, if called
    events,         \* history: what Exec did since the last r.client.exec call
    outcome,        \* history: what the last r.client.exec call returned
    priorRetryable, \* history: every earlier outcome was a retryable one
    exit            \* history: how this Exec call left its loop

execVars ==
    <<method, allowNonIdempotentRetry, isRetry, retry, Attempt, ctx, pc,
      attempt, res, err, timerFired, configured, execs, calls, waits,
      consulted, asked, events, outcome, priorRetryable, exit>>

(***************************************************************************)
(* Hooks of a request: state.                                              *)
(***************************************************************************)
VARIABLES
    respHooks,      \* len(r.respHooks)
    respHookRuns,   \* history: the response hook invocations so far
    reqHooked       \* history: Client.exec has run the request hooks

hookVars == <<respHooks, respHookRuns, reqHooked>>

(***************************************************************************)
(* retry.go: constants and state.                                          *)
(***************************************************************************)
WithoutJitter == 0
FullJitter == 1
EqualJitter == 2
DecorrelatedJitter == 3

\* time.Second and time.Nanosecond, in nanoseconds
Second == 1000000000
Nanosecond == 1

VARIABLES
    backoff,        \* r.retry.Backoff: nil, or its min, max, prev, strategy
    retryWait,      \* r.retry.Wait
    rlast           \* history: the last call into retry.go, and its result

retryVars == <<backoff, retryWait, rlast>>

(***************************************************************************)
(* Response body: state.                                                   *)
(***************************************************************************)
VARIABLES
    decompressors,  \* c.decompressors.data: encoding key -> transform
    regLog,         \* history: the SetDecompressor calls, in order
    resp,           \* the Response Client.exec built last
    blast           \* history: the last call on resp's body, and its result

respVars == <<decompressors, regLog, resp, blast>>

(***************************************************************************)
(* Request body: state.                                                    *)
(***************************************************************************)
VARIABLES
    Body,           \* r.Body: its dynamic type, its bytes and its read position
    allowGetPayload,    \* r.AllowGetPayload
    alloweDeletePayload,    \* r.AlloweDeletePayload
    sent            \* history: the last Client.exec call and the body it sent

bodyVars == <<Body, allowGetPayload, alloweDeletePayload, sent>>

(***************************************************************************)
(* Concurrent calls on one breaker: state.                                 *)
(***************************************************************************)
VARIABLES
    gpc,            \* per goroutine: the line its OnSuccess or OnFailure is at
    gseen,          \* per goroutine: what cb.state.Load() gave its switch
    gcalls          \* history, per goroutine: the calls it has begun

raceVars == <<gpc, gseen, gcalls>>

(***************************************************************************)
(* The earlier Request.Exec, which polls up to Retry.PollLimit times and   *)
(* returns a RetryPollError when the limit is used up: state.  Its locals  *)
(* and the request's fields are those of execVars (err is the err declared *)
(* at line 185, outcome what the last r.client.exec call returned).        *)
(***************************************************************************)
VARIABLES
    pollLimit,      \* r.retry.PollLimit
    returned        \* the error Exec returned

pollVars == <<pollLimit, returned>>

vars ==
    <<breakerVars, execVars, hookVars, retryVars, respVars, bodyVars,
      raceVars, pollVars>>

\* What an atomic.Value that was never stored holds: Load() returns nil.
NilValue == [kind |-> "nil", at |-> 0]

NoCall == [op |-> "none", from |-> StateClosed, elapsed |-> FALSE, ret |-> "none"]

\* NewCircuitBreaker: zero fields take the defaults, the state is Closed.
NewCircuitBreaker(c) ==
    [FailureThreshold |->
        IF c.FailureThreshold = 0 THEN defaultFailureThreshold ELSE c.FailureThreshold,
     SuccessThreshold |->
        IF c.SuccessThreshold = 0 THEN defaultSuccessThreshold ELSE c.SuccessThreshold,
     Timeout |-> IF c.Timeout = 0 THEN defaultTimeout ELSE c.Timeout]

BreakerConfigs ==
    [FailureThreshold : 0..MaxThreshold,
     SuccessThreshold : 0..MaxSuccess,
     Timeout : 0..MaxTimeout]

\* Whether config.Timeout has passed since the state last became Open.
Elapsed == openedAt >= 0 /\ now - openedAt >= config.Timeout

Called(op, ret) == [op |-> op, from |-> state, elapsed |-> Elapsed, ret |-> ret]

\* OnSuccess with a HalfOpen case that closes the circuit.
OnSuccessCloses ==
    /\ state = StateClosed => successCount < MaxSuccess
    /\ IF state = StateClosed
         THEN /\ successCount' = successCount + 1
              /\ state' = IF successCount' >= config.SuccessThreshold
                            THEN StateClosed ELSE state
              /\ UNCHANGED failureCount
         ELSE IF state = StateHalfOpen
                THEN /\ failureCount' = 0
                     /\ state' = StateClosed
                     /\ UNCHANGED successCount
                ELSE UNCHANGED <<successCount, failureCount, state>>
    /\ last' = Called("OnSuccess", "nil")
    /\ streak' = 0
    /\ UNCHANGED <<config, lastFailureAt, now, nFailure, openedAt>>

\* OnSuccess, case StateClosed: count the success and store Closed again.
\* case StateHalfOpen: reset the failure counter.  Open: nothing.
OnSuccess ==
    /\ state = StateClosed => successCount < MaxSuccess
    /\ IF state = StateClosed
         THEN /\ successCount' = successCount + 1
              /\ state' = IF successCount' >= config.SuccessThreshold
                            THEN StateClosed ELSE state
              /\ UNCHANGED failureCount
         ELSE IF state = StateHalfOpen
                THEN /\ failureCount' = 0
                     /\ UNCHANGED <<successCount, state>>
                ELSE UNCHANGED <<successCount, failureCount, state>>
    /\ last' = Called("OnSuccess", "nil")
    /\ streak' = 0
    /\ UNCHANGED <<config, lastFailureAt, now, nFailure, openedAt>>

\* The comparison of line 88 with the threshold missed by one.
TripsMutant(count) == count > config.FailureThreshold

\* OnFailure line 88: the count after the increment against the threshold.
Trips(count) == count >= config.FailureThreshold

\* OnFailure, case StateClosed: count the failure, Open at the threshold.
\* case StateHalfOpen: store time.Now().UnixNano(), an int64, then Open.
OnFailure ==
    /\ nFailure < MaxFailureCalls
    /\ nFailure' = nFailure + 1
    /\ streak' = streak + 1
    /\ IF state = StateClosed
         THEN /\ failureCount' = failureCount + 1
              /\ state' = IF Trips(failureCount') THEN StateOpen ELSE state
              /\ UNCHANGED lastFailureAt
         ELSE IF state = StateHalfOpen
                THEN /\ lastFailureAt' = [kind |-> "int64", at |-> now]
                     /\ state' = StateOpen
                     /\ UNCHANGED failureCount
                ELSE UNCHANGED <<failureCount, state, lastFailureAt>>
    /\ openedAt' = IF state # StateOpen /\ state' = StateOpen THEN now ELSE openedAt
    /\ last' = Called("OnFailure", "nil")
    /\ UNCHANGED <<config, successCount, now>>

\* PreRequest.  In Open, line 99 asserts that lastFailureAt holds a time.Time:
\* the assertion panics on the nil of a value never stored and on the int64
\* OnFailure stores, before the timeout is looked at.
PreRequest ==
    /\ IF state = StateOpen
         THEN IF lastFailureAt.kind # "Time"
                THEN /\ last' = Called("PreRequest", "panic")
                     /\ UNCHANGED state
                ELSE IF now - lastFailureAt.at >= config.Timeout
                       THEN /\ state' = StateHalfOpen
                            /\ last' = Called("PreRequest", "nil")
                       ELSE /\ last' = Called("PreRequest", "ErrCircuitBreakerOpen")
                            /\ UNCHANGED state
         ELSE /\ last' = Called("PreRequest", "nil")
              /\ UNCHANGED state
    /\ UNCHANGED <<config, failureCount, successCount, lastFailureAt, now,
                   nFailure, streak, openedAt>>

\* The clock advances.
Tick ==
    /\ now < MaxTime
    /\ now' = now + 1
    /\ UNCHANGED <<config, state, failureCount, successCount, lastFailureAt,
                   nFailure, streak, openedAt, last>>

\* The (response, error) pairs Execute is called with: no response and an
\* error, a response and no error, a response and an error.  status -1
\* stands for the nil *http.Response.
ExecuteInputs ==
    [status : {-1}, err : {TRUE}] \cup [status : {200, 499, 500, 503}, err : BOOLEAN]

\* defaultTripFunc, on a response that is not nil.
defaultTripFunc(r) == r.status > 499

\* Execute(r, err) with the default TripFunc: line 66 calls TripFunc(r)
\* before it looks at err, and defaultTripFunc reads r.StatusCode, which
\* panics on a nil r.
ExecuteWith(i) ==
    IF i.status = -1
      THEN /\ last' = Called("Execute", "panic")
           /\ UNCHANGED <<config, state, failureCount, successCount,
                          lastFailureAt, now, nFailure, streak, openedAt>>
      ELSE IF defaultTripFunc(i) \/ i.err THEN OnFailure ELSE OnSuccess

Execute == \E i \in ExecuteInputs : ExecuteWith(i)

(***************************************************************************)
(* Request.Exec.                                                           *)
(***************************************************************************)
\* r.retry before SetRetry, and the &Retry{} Exec puts in its place.
NilRetry == [nil |-> TRUE, Count |-> 0, Cond |-> FALSE]
EmptyRetry == [nil |-> FALSE, Count |-> 0, Cond |-> FALSE]

\* What SetRetry can leave in r.retry.
Retries == [nil : {FALSE}, Count : -1..MaxCount, Cond : BOOLEAN]

\* No response: the nil *Response.
NoRes == [status |-> -1, from |-> 0, body |-> "none"]

\* Client.exec returns a response and no error, or no response and an error.
Outcomes ==
    [status : Statuses, err : {"nil"}] \cup [status : {-1}, err : ErrKinds]

NoOutcome == [status |-> -1, err |-> "nil"]

\* The response Client.exec builds from the outcome of call number n.
Response(o, n) ==
    IF o.err = "nil" THEN [status |-> o.status, from |-> n, body |-> "open"]
    ELSE NoRes

\* Request.isIdempotent.
isIdempotent ==
    \/ allowNonIdempotentRetry
    \/ method \in {"GET", "HEAD", "TRACE", "OPTIONS", "DELETE", "PUT"}

\* defaultRetryCondition without the exception for 501.
defaultRetryConditionMutant(r, e) ==
    IF e = "cert" THEN FALSE
    ELSE IF e \in {"urlPerm", "urlTemp", "urlOther"} THEN e = "urlTemp"
    ELSE IF r = NoRes THEN FALSE
    ELSE r.status = 429 \/ r.status >= 500 \/ r.status = 0

\* defaultRetryCondition.
defaultRetryCondition(r, e) ==
    IF e = "cert" THEN FALSE
    ELSE IF e \in {"urlPerm", "urlTemp", "urlOther"} THEN e = "urlTemp"
    ELSE IF r = NoRes THEN FALSE
    ELSE \/ r.status = 429
         \/ (r.status >= 500 /\ r.status # 501)
         \/ r.status = 0

\* The loop condition of line 199 with one attempt too many.
LoopTestMutant(a) == a <= retry.Count + 1

\* Exec line 199: the loop condition.
LoopTest(a) == a <= retry.Count

\* The check of line 204 looking for Canceled in place of DeadlineExceeded.
DeadlineBreakMutant == err # "nil" /\ ctx = "canceled"

\* Exec lines 202-206: an error, and the context ended by its deadline.
DeadlineBreak == err # "nil" /\ ctx = "deadline"

\* Exec line 209: the last attempt of an idempotent request.
LimitBreak == Attempt - 1 = retry.Count /\ isIdempotent

\* r.Context().Err() of a context that is done.
CtxErr(c) == IF c = "deadline" THEN "context deadline exceeded"
             ELSE "context canceled"

\* Exec lines 244-245: the loop is left and Exec returns res, err.
Return(how) ==
    /\ pc' = "done"
    /\ exit' = how

\* The loop's post statement and condition: the next iteration, or the end.
NextIteration ==
    /\ attempt' = attempt + 1
    /\ IF LoopTest(attempt + 1)
         THEN pc' = "call" /\ UNCHANGED exit
         ELSE Return("loop")

\* The select's context case with a plain break, which leaves the select only.
CtxCaseMutant(c, how) ==
    /\ err' = CtxErr(c)
    /\ NextIteration
    /\ UNCHANGED events

\* Exec lines 236-238: the context is done; its error is returned.
CtxCase(c, how) ==
    /\ err' = CtxErr(c)
    /\ Return(how)
    /\ UNCHANGED <<attempt, events>>

\* Exec lines 239-241: the timer has fired; on to the next attempt.
TimerCase ==
    /\ NextIteration
    /\ events' = Append(events, "woke")
    /\ UNCHANGED err

\* A retryable outcome, in the words of the retry rules: a temporary URL
\* error, or a response with status 429, 0, or 500 and above other than 501.
\* The history variable priorRetryable is kept in these terms.
RetryableOutcome(o) ==
    \/ o.err = "urlTemp"
    \/ /\ o.err = "nil"
       /\ (o.status = 429 \/ o.status = 0 \/ (o.status >= 500 /\ o.status # 501))

\* Lines 225-234 with the timer started before the body is drained.
WaitThenDrain(r) ==
    <<"wait">> \o (IF r # NoRes THEN <<"drain">> ELSE <<>>)

\* Exec lines 225-234, in the order of the code: the body of a response is
\* drained and closed, then the wait is computed and its timer started.
DrainThenWait(r) ==
    (IF r # NoRes THEN <<"drain">> ELSE <<>>) \o <<"wait">>

\* Exec lines 182-199: the locals, r.retry made non-nil, its Count made >= 0.
ExecBegin ==
    /\ pc \in {"idle", "done"}
    /\ execs < MaxExecs
    /\ execs' = execs + 1
    /\ retry' = IF retry.nil THEN EmptyRetry
                ELSE IF retry.Count < 0 THEN [retry EXCEPT !.Count = 0]
                ELSE retry
    /\ res' = NoRes
    /\ err' = "nil"
    /\ attempt' = 0
    /\ pc' = "call"
    /\ calls' = 0
    /\ waits' = 0
    /\ consulted' = 0
    /\ asked' = "no"
    /\ events' = <<>>
    /\ outcome' = NoOutcome
    /\ priorRetryable' = TRUE
    /\ exit' = "none"
    /\ timerFired' = FALSE
    /\ UNCHANGED <<method, allowNonIdempotentRetry, isRetry, Attempt, ctx,
                   configured>>

\* Exec lines 200-201: r.Attempt++ and the call of r.client.exec, which
\* returns any of its outcomes.
Transport ==
    /\ pc = "call"
    /\ \E o \in Outcomes :
          /\ res' = Response(o, calls + 1)
          /\ err' = o.err
          /\ outcome' = o
    /\ Attempt' = Attempt + 1
    /\ calls' = calls + 1
    /\ events' = <<>>
    /\ priorRetryable' =
          (calls = 0 \/ (priorRetryable /\ RetryableOutcome(outcome)))
    /\ pc' = "returned"
    /\ UNCHANGED <<asked, method, allowNonIdempotentRetry, isRetry, retry, ctx,
                   attempt, timerFired, configured, execs, waits, consulted,
                   exit>>

\* Exec lines 202-234: from the return of r.client.exec to the start of the
\* timer.  Cond, when it is asked, answers either way.  The length of the wait
\* (r.retry.Wait, or what Backoff.NextWaitDuration gives) is not kept: the
\* timer fires at any later moment.
AfterCall ==
    /\ pc = "returned"
    /\ IF DeadlineBreak
         THEN /\ Return("deadline")
              /\ UNCHANGED <<res, attempt, waits, consulted, asked,
                             events, timerFired>>
         ELSE IF LimitBreak
           THEN /\ Return("limit")
                /\ UNCHANGED <<res, attempt, waits, consulted, asked,
                               events, timerFired>>
           ELSE IF isRetry
             THEN LET byDefault == defaultRetryCondition(res, err)
                      askCond == ~byDefault /\ retry.Cond /\ res # NoRes
                  IN  \E verdict \in (IF askCond THEN BOOLEAN ELSE {byDefault}) :
                        /\ consulted' = consulted + 1
                        /\ asked' = IF ~askCond THEN "no"
                                     ELSE IF verdict THEN "true" ELSE "false"
                        /\ IF ~verdict
                             THEN /\ Return("veto")
                                  /\ UNCHANGED <<res, waits, timerFired,
                                                 events>>
                             ELSE /\ res' = IF res # NoRes
                                              THEN [res EXCEPT !.body = "closed"]
                                              ELSE res
                                  /\ waits' = waits + 1
                                  /\ events' = events \o DrainThenWait(res)
                                  /\ timerFired' = FALSE
                                  /\ pc' = "timer"
                                  /\ UNCHANGED exit
                        /\ UNCHANGED attempt
             ELSE /\ NextIteration
                  /\ UNCHANGED <<res, waits, consulted, asked, events,
                                 timerFired>>
    /\ UNCHANGED <<method, allowNonIdempotentRetry, isRetry, retry, Attempt,
                   ctx, err, configured, execs, calls, outcome, priorRetryable>>

\* Exec line 235: the select looks at its two channels.  A case that is ready
\* is taken, either one when both are; with none ready Exec blocks.
Select ==
    /\ pc = "timer"
    /\ \/ /\ ctx # "live"
          /\ CtxCase(ctx, "ctx")
       \/ /\ timerFired
          /\ TimerCase
       \/ /\ ctx = "live" /\ ~timerFired
          /\ pc' = "blocked"
          /\ UNCHANGED <<attempt, err, exit, events>>
    /\ UNCHANGED <<asked, method, allowNonIdempotentRetry, isRetry, retry, Attempt,
                   ctx, res, timerFired, configured, execs, calls, waits,
                   consulted, outcome, priorRetryable>>

\* The timer of line 234 fires.  An Exec blocked in the select is woken with
\* the timer's case.
TimerFires ==
    /\ pc \in {"timer", "blocked"}
    /\ ~timerFired
    /\ timerFired' = TRUE
    /\ IF pc = "blocked" THEN TimerCase
       ELSE UNCHANGED <<pc, attempt, err, exit, events>>
    /\ UNCHANGED <<asked, method, allowNonIdempotentRetry, isRetry, retry, Attempt,
                   ctx, res, configured, execs, calls, waits, consulted,
                   outcome, priorRetryable>>

\* The request's context ends, cancelled or past its deadline.  An Exec
\* blocked in the select is woken with the context's case.
CtxDone ==
    /\ ctx = "live"
    /\ pc # "idle"
    /\ \E c \in {"deadline", "canceled"} :
          /\ ctx' = c
          /\ IF pc = "blocked" THEN CtxCase(c, "ctx-blocked")
             ELSE UNCHANGED <<pc, attempt, err, exit, events>>
    /\ UNCHANGED <<asked, method, allowNonIdempotentRetry, isRetry, retry, Attempt,
                   res, timerFired, configured, execs, calls, waits,
                   consulted, outcome, priorRetryable>>

\* Client.exec lines 131-135: the request hooks run before c.client.Do.
\* Neither Client.exec nor Exec invokes a response hook.
RunRequestHooks ==
    /\ reqHooked' = TRUE
    /\ UNCHANGED <<respHooks, respHookRuns>>

(***************************************************************************)
(* retry.go: BackoffWithJitter, ParseRetryHeader.                          *)
(*                                                                         *)
(* A string is a sequence of tokens: a space, a sign, a digit, a letter,   *)
(* or a whole well-formed RFC 1123 date.                                   *)
(***************************************************************************)
Min(a, b) == IF a < b THEN a ELSE b

\* math.Exp2 on the attempt numbers Exec passes.
RECURSIVE Exp2(_)
Exp2(n) == IF n <= 0 THEN 1 ELSE 2 * Exp2(n - 1)

\* strings.TrimSpace: leading and trailing white space removed.
RECURSIVE TrimLeft(_)
TrimLeft(v) == IF v # <<>> /\ v[1] = " " THEN TrimLeft(Tail(v)) ELSE v

RECURSIVE TrimRight(_)
TrimRight(v) ==
    IF v # <<>> /\ v[Len(v)] = " "
      THEN TrimRight(SubSeq(v, 1, Len(v) - 1)) ELSE v

TrimSpace(v) == TrimRight(TrimLeft(v))

Digits == {"0", "1", "2"}

DigitValue(c) == CASE c = "0" -> 0 [] c = "1" -> 1 [] OTHER -> 2

\* The value of a string of digits, base 10.
RECURSIVE Atoi(_)
Atoi(v) ==
    IF v = <<>> THEN 0
    ELSE 10 * Atoi(SubSeq(v, 1, Len(v) - 1)) + DigitValue(v[Len(v)])

\* strconv.ParseInt(v, 10, 64): an optional sign, then digits and nothing
\* else; no white space is accepted.
ParseInt(v) ==
    LET signed == v # <<>> /\ v[1] \in {"+", "-"}
        digits == IF signed THEN Tail(v) ELSE v
    IN IF digits = <<>> \/ \E i \in 1..Len(digits) : digits[i] \notin Digits
         THEN [ok |-> FALSE, n |-> 0]
         ELSE [ok |-> TRUE,
               n |-> IF v[1] = "-" THEN 0 - Atoi(digits) ELSE Atoi(digits)]

\* The dates of the model and the instants they name, in nanoseconds.
Dates ==
    {"Thu, 01 Jan 1970 00:00:00 GMT", "Thu, 01 Jan 1970 00:00:01 GMT",
     "Thu, 01 Jan 1970 00:00:02 GMT"}

DateInstant(c) ==
    CASE c = "Thu, 01 Jan 1970 00:00:00 GMT" -> 0
      [] c = "Thu, 01 Jan 1970 00:00:01 GMT" -> Second
      [] OTHER -> 2 * Second

\* time.Parse(time.RFC1123, v): the whole string is one date.
ParseTime(v) ==
    IF Len(v) = 1 /\ v[1] \in Dates
      THEN [ok |-> TRUE, at |-> DateInstant(v[1])]
      ELSE [ok |-> FALSE, at |-> 0]

\* The instants at which the clock is read.
Clock == {0, 1, Second, 2 * Second}

\* The test of line 140 with zero taken for negative.
NegativeDelayMutant(delay) == delay < -1

\* ParseRetryHeader line 140.
NegativeDelay(delay) == delay < 0

\* ParseRetryHeader(v), the clock reading t.
ParseRetryHeader(v, t) ==
    IF TrimSpace(v) = <<>> THEN [d |-> 0, ok |-> FALSE]
    ELSE IF ParseInt(v).ok
      THEN IF NegativeDelay(ParseInt(v).n)
             THEN [d |-> 0, ok |-> FALSE]
             ELSE [d |-> Second * ParseInt(v).n, ok |-> TRUE]
    ELSE IF ~ParseTime(v).ok THEN [d |-> 0, ok |-> FALSE]
    ELSE IF ParseTime(v).at - t > 0
      THEN [d |-> ParseTime(v).at - t, ok |-> TRUE]
      ELSE [d |-> 0, ok |-> TRUE]

Strategies == {WithoutJitter, FullJitter, EqualJitter, DecorrelatedJitter}

\* r.retry.Backoff when none is set.
NoBackoff ==
    [nil |-> TRUE, min |-> 0, max |-> 0, prev |-> 0, strategy |-> WithoutJitter]

\* NewBackoffWithJitter for positive minWait and maxWait (arguments <= 0
\* take the defaults of lines 35-38, which are not drawn).
NewBackoffWithJitter(minWait, maxWait, strategy) ==
    [nil |-> FALSE, min |-> minWait, max |-> maxWait, prev |-> 0,
     strategy |-> strategy]

\* The backoffs drawn: 0 < min <= max.
Backoffs ==
    {b \in {NewBackoffWithJitter(mn, mx, s) :
                mn \in 1..MaxWait, mx \in 1..MaxWait, s \in Strategies} :
        b.min <= b.max}

\* rand.Int64N(n): a number of 0..n-1; it panics when n <= 0 (no number).
Int64N(n) == IF n <= 0 THEN {} ELSE 0..(n - 1)

\* What a call returns: a duration and the prev it leaves, or a panic.
Ret(d, prev) == [panic |-> FALSE, d |-> d, prev |-> prev]
Panicked(prev) == [panic |-> TRUE, d |-> 0, prev |-> prev]

\* randDuration with a DecorrelatedJitter case that forgets the wait it
\* returns (line 115 left out).
randDurationForgetful(b, exp) ==
    IF exp <= 0 THEN {Ret(Nanosecond, b.prev)}
    ELSE IF b.strategy = FullJitter
      THEN {Ret(k, b.prev) : k \in Int64N(exp)}
    ELSE IF b.strategy = EqualJitter
      THEN LET half == exp \div 2
           IN IF Int64N(half) = {} THEN {Panicked(b.prev)}
              ELSE {Ret(half + k, b.prev) : k \in Int64N(half)}
    ELSE IF b.strategy = DecorrelatedJitter
      THEN LET prev == IF b.prev = 0 THEN b.min ELSE b.prev
               n == (prev * 3) - b.min
           IN IF Int64N(n) = {} THEN {Panicked(prev)}
              ELSE {Ret(Min(b.max, b.min + k), prev) : k \in Int64N(n)}
    ELSE {Ret(exp, b.prev)}

\* randDuration: the outcomes the random source allows.
randDuration(b, exp) ==
    IF exp <= 0 THEN {Ret(Nanosecond, b.prev)}
    ELSE IF b.strategy = FullJitter
      THEN {Ret(k, b.prev) : k \in Int64N(exp)}
    ELSE IF b.strategy = EqualJitter
      THEN LET half == exp \div 2
           IN IF Int64N(half) = {} THEN {Panicked(b.prev)}
              ELSE {Ret(half + k, b.prev) : k \in Int64N(half)}
    ELSE IF b.strategy = DecorrelatedJitter
      THEN LET prev == IF b.prev = 0 THEN b.min ELSE b.prev
               n == (prev * 3) - b.min
           IN IF Int64N(n) = {} THEN {Panicked(prev)}
              ELSE {Ret(Min(b.max, b.min + k), Min(b.max, b.min + k)) :
                       k \in Int64N(n)}
    ELSE {Ret(exp, b.prev)}

\* balanceMinMax.
balanceMinMax(b, delay) ==
    IF delay <= 0 \/ b.max < delay THEN b.max
    ELSE IF delay < b.min THEN b.min
    ELSE delay

\* The nil *Response, and a response by its status and Retry-After header
\* (the empty string when the header is absent).
NilRes == [status |-> -1, retryAfter |-> <<>>]

WaitHeaders ==
    {<<>>, <<"0">>, <<"1">>, <<"-", "1">>, <<"x">>,
     <<"Thu, 01 Jan 1970 00:00:01 GMT">>}

WaitResponses ==
    {NilRes} \cup [status : {200, 429, 503}, retryAfter : WaitHeaders]

\* The test of lines 83-84 without 503.
HonoursRetryAfterMutant(status) == status = 429

\* NextWaitDuration lines 83-84.
HonoursRetryAfter(status) == status = 429 \/ status = 503

\* NextWaitDuration(res, attempt), the clock reading t: the outcomes the
\* random source allows.
NextWaitDuration(b, r, a, t) ==
    LET hint == IF r # NilRes /\ HonoursRetryAfter(r.status)
                  THEN ParseRetryHeader(r.retryAfter, t)
                  ELSE [d |-> 0, ok |-> FALSE]
        exp == Min(b.max, b.min * Exp2(a))
    IN IF hint.ok THEN {Ret(hint.d, b.prev)}
       ELSE {IF o.panic THEN o ELSE Ret(balanceMinMax(b, o.d), o.prev) :
                o \in randDuration(b, exp)}

NoRetryCall == [op |-> "none"]

\* The instants at which a call can read the clock: ParseRetryHeader reads
\* it (time.Until, line 151) only when the header is a date.
ClockReads(v) == IF ParseTime(v).ok THEN Clock ELSE {0}

\* Exec lines 230-234, with the res and the attempt of the iteration: the
\* wait is taken from Backoff.NextWaitDuration when there is a backoff, and
\* the timer is started with r.retry.Wait.
ExecWait ==
    \E r \in WaitResponses, a \in 0..MaxAttempt :
      \E t \in ClockReads(r.retryAfter) :
        IF backoff.nil
          THEN /\ rlast' = [op |-> "Exec", b |-> backoff, res |-> r,
                            attempt |-> a, at |-> t,
                            ret |-> Ret(retryWait, backoff.prev)]
               /\ UNCHANGED <<backoff, retryWait>>
          ELSE \E o \in NextWaitDuration(backoff, r, a, t) :
                 /\ backoff' = [backoff EXCEPT !.prev = o.prev]
                 /\ retryWait' = IF o.panic THEN retryWait ELSE o.d
                 /\ rlast' = [op |-> "Exec", b |-> backoff, res |-> r,
                              attempt |-> a, at |-> t, ret |-> o]

\* The header values ParseRetryHeader is called with, each with what it
\* says: an integer, a date (by its instant), or neither.
HeaderCases ==
    {[text |-> <<"0">>, kind |-> "int", n |-> 0],
     [text |-> <<"2">>, kind |-> "int", n |-> 2],
     [text |-> <<"0", "1">>, kind |-> "int", n |-> 1],
     [text |-> <<"+", "1">>, kind |-> "int", n |-> 1],
     [text |-> <<"-", "0">>, kind |-> "int", n |-> 0],
     [text |-> <<"-", "1">>, kind |-> "int", n |-> -1],
     [text |-> <<"-", "2", "0">>, kind |-> "int", n |-> -20],
     [text |-> <<"Thu, 01 Jan 1970 00:00:00 GMT">>, kind |-> "date", n |-> 0],
     [text |-> <<"Thu, 01 Jan 1970 00:00:01 GMT">>, kind |-> "date",
      n |-> Second],
     [text |-> <<"Thu, 01 Jan 1970 00:00:02 GMT">>, kind |-> "date",
      n |-> 2 * Second],
     [text |-> <<>>, kind |-> "none", n |-> 0],
     [text |-> <<" ">>, kind |-> "none", n |-> 0],
     [text |-> <<" ", " ">>, kind |-> "none", n |-> 0],
     [text |-> <<"x">>, kind |-> "none", n |-> 0],
     [text |-> <<"1", "x">>, kind |-> "none", n |-> 0],
     [text |-> <<"-">>, kind |-> "none", n |-> 0],
     [text |-> <<"1", "-">>, kind |-> "none", n |-> 0],
     [text |-> <<" ", "1">>, kind |-> "none", n |-> 0],
     [text |-> <<"1", " ">>, kind |-> "none", n |-> 0],
     [text |-> <<"1", " ", "2">>, kind |-> "none", n |-> 0],
     [text |-> <<"Thu, 01 Jan 1970 00:00:01 GMT", " ">>, kind |-> "none",
      n |-> 0],
     [text |-> <<"x", "Thu, 01 Jan 1970 00:00:01 GMT">>, kind |-> "none",
      n |-> 0]}

\* A call of ParseRetryHeader.
ParseRetryHeaderCall ==
    /\ \E h \in HeaderCases :
         \E t \in ClockReads(h.text) :
         rlast' = [op |-> "ParseRetryHeader", h |-> h, at |-> t,
                   ret |-> ParseRetryHeader(h.text, t)]
    /\ UNCHANGED <<backoff, retryWait>>

\* The (response, error) pairs defaultRetryCondition is called with.
ClassifyStatuses == Statuses \cup {100, 301, 400, 499, 500, 502, 599, 600}

ClassifyResponses ==
    {NoRes} \cup {[status |-> s, from |-> 1, body |-> "open"] :
                     s \in ClassifyStatuses}

\* A call of defaultRetryCondition.
DefaultRetryConditionCall ==
    /\ \E r \in ClassifyResponses, e \in ErrKinds \cup {"nil"} :
         rlast' = [op |-> "defaultRetryCondition", res |-> r, err |-> e,
                   ret |-> defaultRetryCondition(r, e)]
    /\ UNCHANGED <<backoff, retryWait>>

(***************************************************************************)
(* The response body: decompressor registry, wrapDecompressor, Bytes,      *)
(* Decode, MultiReadBody.                                                  *)
(***************************************************************************)
\* newDecompressor: the built-in transforms.
newDecompressor ==
    (<<"gzip">> :> "decompressGzip") @@ (<<"deflate">> :> "decompressFlate")
        @@ (<<"zlib">> :> "decompressZlib")

\* A put that keeps the transform a key already has.
putMutant(d, key, fn) ==
    IF key \in DOMAIN d THEN d
    ELSE [k \in DOMAIN d \cup {key} |-> IF k = key THEN fn ELSE d[k]]

\* decompressors.put: ds.data[key] = fn.
put(d, key, fn) ==
    [k \in DOMAIN d \cup {key} |-> IF k = key THEN fn ELSE d[k]]

\* decompressors.get.
get(d, key) ==
    IF key \in DOMAIN d THEN [fn |-> d[key], ok |-> TRUE]
    ELSE [fn |-> "nil", ok |-> FALSE]

\* The keys and transforms SetDecompressor is called with: a new encoding
\* under two transforms, a built-in one overridden, a key with white space.
Registrations ==
    {[key |-> <<"br">>, fn |-> "fn1"], [key |-> <<"br">>, fn |-> "fn2"],
     [key |-> <<"gzip">>, fn |-> "fn2"], [key |-> <<" ", "br">>, fn |-> "fn1"]}

\* Client.SetDecompressor.
SetDecompressor ==
    /\ Len(regLog) < MaxPuts
    /\ \E reg \in Registrations :
         /\ decompressors' = put(decompressors, reg.key, reg.fn)
         /\ regLog' = Append(regLog, reg)
    /\ UNCHANGED <<resp, blast>>

\* The Content-Encoding values a response arrives with (the empty string
\* when the header is absent).
Encodings ==
    {<<>>, <<" ">>, <<"identity">>, <<"gzip">>, <<" ", "gzip", " ">>,
     <<"GZIP">>, <<"br">>, <<"zstd">>}

\* What a transform can make of a body: a reader, io.EOF, another error.
\* No transform is called for an encoding wrapDecompressor does not look up.
TransformOutcomes(e) ==
    IF TrimSpace(e) \in {<<>>, <<"identity">>} THEN {"ok"}
    ELSE {"ok", "EOF", "err"}

\* The Content-Type of a response: one mime.ParseMediaType rejects, one with
\* no decoder registered, one with a decoder.
ContentTypes == {"malformed", "text/unknown", "application/json"}

NoResponse ==
    [id |-> 0, sent |-> <<>>, encoding |-> <<>>, ctype |-> "malformed",
     Body |-> "raw", left |-> "all", IsRead |-> FALSE, applied |-> "none",
     err |-> "nil", regs |-> 0, consumed |-> FALSE]

NoBodyCall == [op |-> "none", ret |-> "none", n |-> 0]

\* wrapDecompressor, with what the transform makes of the body: a reader
\* ("ok"), io.EOF, or another error.
wrapDecompressor(r, d, out) ==
    IF r.IsRead THEN [r EXCEPT !.err = "ErrBodyIsRead"]
    ELSE LET v == TrimSpace(r.encoding)
         IN IF v = <<>> \/ v = <<"identity">> THEN r
            ELSE IF ~get(d, v).ok
              THEN [r EXCEPT !.err = "decompressor not found"]
            ELSE IF out = "EOF" THEN [r EXCEPT !.applied = get(d, v).fn]
            ELSE IF out = "err"
              THEN [r EXCEPT !.applied = get(d, v).fn, !.err = "decompress"]
            ELSE [r EXCEPT !.applied = get(d, v).fn, !.Body = get(d, v).fn,
                           !.encoding = <<>>]

\* Client.exec lines 140-150: the Response is built around what the
\* transport returned and wrapDecompressor is run on it.
NewResponse ==
    /\ resp.id < MaxResponses
    /\ \E e \in Encodings, c \in ContentTypes :
         \E out \in TransformOutcomes(e) :
         resp' = wrapDecompressor(
                   [id |-> resp.id + 1, sent |-> e, encoding |-> e,
                    ctype |-> c, Body |-> "raw", left |-> "all",
                    IsRead |-> FALSE, applied |-> "none", err |-> "nil",
                    regs |-> Len(regLog), consumed |-> FALSE],
                   decompressors, out)
    /\ blast' = NoBodyCall
    /\ UNCHANGED <<decompressors, regLog>>

\* A body call leaving the read mark as it found it.
MarkReadMutant(r) == r

\* r.IsRead = true (Decode line 60, Bytes line 72).
MarkRead(r) == [r EXCEPT !.IsRead = TRUE]

\* A response Client.exec returned to the caller, and a further body call.
CanCallBody == resp.id > 0 /\ resp.err = "nil" /\ blast.n < MaxBodyCalls

BodyCalled(op, ret) == [op |-> op, ret |-> ret, n |-> blast.n + 1]

\* What io.ReadAll returns of a stream: its data, nothing when it is at its
\* end, an error once it has failed.
ReadAll(r, read) ==
    IF read = "err" \/ r.left = "failed" THEN "error"
    ELSE IF r.left = "all" THEN "data" ELSE "empty"

\* Bytes, with what the read of the body does.
Bytes(r, read) ==
    IF r.IsRead THEN [r |-> r, ret |-> "ErrBodyIsRead"]
    ELSE IF ReadAll(r, read) = "error"
      THEN [r |-> [r EXCEPT !.left = "failed"], ret |-> "read error"]
    ELSE [r |-> [MarkRead(r) EXCEPT !.left = "none", !.consumed = TRUE],
          ret |-> ReadAll(r, read)]

\* Response.Bytes.
BytesCall ==
    /\ CanCallBody
    /\ \E read \in {"ok", "err"} :
         /\ resp' = Bytes(resp, read).r
         /\ blast' = BodyCalled("Bytes", Bytes(resp, read).ret)
    /\ UNCHANGED <<decompressors, regLog>>

\* Response.MultiReadBody: Bytes, and a reader over what it returned.
MultiReadBodyCall ==
    /\ CanCallBody
    /\ \E read \in {"ok", "err"} :
         /\ resp' = Bytes(resp, read).r
         /\ blast' = BodyCalled("MultiReadBody", Bytes(resp, read).ret)
    /\ UNCHANGED <<decompressors, regLog>>

\* Response.Decode, with what the decoder makes of the body.
DecodeCall ==
    /\ CanCallBody
    /\ \E dec \in {"nil", "decode error"} :
         IF resp.IsRead
           THEN /\ blast' = BodyCalled("Decode", "ErrBodyIsRead")
                /\ UNCHANGED resp
         ELSE IF resp.ctype = "malformed"
           THEN /\ blast' = BodyCalled("Decode", "mime error")
                /\ UNCHANGED resp
         ELSE IF resp.ctype # "application/json"
           THEN /\ blast' = BodyCalled("Decode", "decoder not found")
                /\ UNCHANGED resp
         ELSE /\ resp' = [MarkRead(resp) EXCEPT
                            !.left = IF resp.left = "failed"
                                       THEN "failed" ELSE "none",
                            !.consumed = TRUE]
              /\ blast' = BodyCalled("Decode",
                            IF resp.left = "all" THEN dec ELSE "decode error")
    /\ UNCHANGED <<decompressors, regLog>>

(***************************************************************************)
(* Request body: DefaultRequestHook, handleRequestBody, buildRequest.       *)
(***************************************************************************)
\* The methods of the requests that are given a body.
PayloadMethods == {"GET", "DELETE", "POST", "HEAD"}

\* r.Body by its dynamic type: nil, a *bytes.Buffer, another io.ReadSeeker,
\* an io.Reader that cannot seek, a string, a []byte, any other value.
\* A reader has a read position (start, mid, end) in the bytes it holds,
\* which are the whole payload, a part of it, or nothing.
BodyKinds == {"nil", "buffer", "seeker", "reader", "string", "bytes", "value"}

NilBody == [kind |-> "nil", data |-> "full", pos |-> "start"]

\* What SetBody is given: a value, or a reader no one has read from.
Bodies == [kind : BodyKinds, data : {"full"}, pos : {"start"}]

\* r.Body.(io.Reader) succeeds.
IsReader(b) == b.kind \in {"buffer", "seeker", "reader"}

\* What a read to the end of reader b delivers of the payload.
Unread(b) ==
    IF b.data = "empty" \/ b.pos = "end" THEN "empty"
    ELSE IF b.data = "partial" \/ b.pos = "mid" THEN "partial"
    ELSE "full"

\* bytes.NewReader, strings.NewReader: a seekable reader over the bytes given.
NewReader(data) == [kind |-> "seeker", data |-> data, pos |-> "start"]

\* Request.isPayloadAllowed.
isPayloadAllowed ==
    IF method \in {"", "GET"} THEN allowGetPayload
    ELSE IF method = "DELETE" THEN alloweDeletePayload
    ELSE method \in {"POST", "PUT", "PATCH"}

\* handleRequestBody lines 81-88: from the second attempt on a seekable
\* reader is rewound and any other reader is refused.
Replay(b, n) ==
    IF n > 1
      THEN IF b.kind = "seeker"
             THEN {[err |-> "nil", body |-> [b EXCEPT !.pos = "start"]]}
             ELSE {[err |-> "not replayable", body |-> b]}
      ELSE {[err |-> "nil", body |-> b]}

\* handleRequestBody, for r.Body = b and r.Attempt = n: the error and the
\* reader it can return.  v.Bytes() of a *bytes.Buffer is its unread part.
\* A value of another type is encoded after the Content-Type header: the
\* header is missing or bad, marshalling fails or no encoder is registered
\* (an error), JSON or XML give a bytes.Reader, and a registered encoder
\* gives a reader of its choice.
handleRequestBody(b, n) ==
    IF b.kind = "buffer" THEN {[err |-> "nil", body |-> NewReader(Unread(b))]}
    ELSE IF IsReader(b) THEN Replay(b, n)
    ELSE IF b.kind \in {"string", "bytes"}
      THEN {[err |-> "nil", body |-> NewReader("full")]}
    ELSE {[err |-> "encode", body |-> b]}
         \cup {[err |-> "nil", body |-> [kind |-> k, data |-> "full", pos |-> "start"]] :
                   k \in {"buffer", "seeker", "reader"}}

\* DefaultRequestHook, for r.Body = b and r.Attempt = n: the error it
\* returns and r.Body as it leaves it.
DefaultRequestHook(b, n) ==
    IF b.kind # "nil" /\ isPayloadAllowed
      THEN handleRequestBody(b, n)
      ELSE {[err |-> "nil", body |-> b]}

\* The positions a reader can be left at by a transport that found it at p.
ReadTo(p) ==
    IF p = "start" THEN {"start", "mid", "end"}
    ELSE IF p = "mid" THEN {"mid", "end"}
    ELSE {"end"}

NoSend == [attempt |-> 0, err |-> "nil", body |-> "none", kind |-> "nil"]

\* Exec lines 200-201 and Client.exec: r.Attempt++, DefaultRequestHook, and,
\* when the hook returns no error, the transport (c.client.Do) with the
\* request buildRequest made: its body is r.Body when that is an io.Reader
\* and nil otherwise.  The transport reads the body up to any point.
ExecAttempt ==
    /\ Attempt < MaxSends
    /\ Attempt' = Attempt + 1
    /\ \E h \in DefaultRequestHook(Body, Attempt + 1) :
          IF h.err # "nil"
            THEN /\ sent' = [attempt |-> Attempt + 1, err |-> h.err,
                             body |-> "none", kind |-> Body.kind]
                 /\ UNCHANGED Body
            ELSE IF IsReader(h.body)
              THEN /\ sent' = [attempt |-> Attempt + 1, err |-> "nil",
                               body |-> Unread(h.body), kind |-> Body.kind]
                   /\ \E p \in ReadTo(h.body.pos) :
                         Body' = [h.body EXCEPT !.pos = p]
              ELSE /\ sent' = [attempt |-> Attempt + 1, err |-> "nil",
                               body |-> "none", kind |-> Body.kind]
                   /\ Body' = h.body
    /\ UNCHANGED <<asked, events, method, allowNonIdempotentRetry, isRetry,
                   retry, ctx, pc,
                   attempt, res, err, timerFired, configured, execs, calls,
                   waits, consulted, outcome, priorRetryable, exit,
                   allowGetPayload, alloweDeletePayload>>

(***************************************************************************)
(* OnSuccess and OnFailure called from several goroutines.  Every field    *)
(* of the breaker is an atomic, so a call is a sequence of atomic loads,   *)
(* adds and stores, and the calls of different goroutines interleave       *)
(* between them.  The histories of the sequential calls (nFailure, streak, *)
(* openedAt, last) are not kept here.                                      *)
(***************************************************************************)
Goroutines == 1..MaxGoroutines

\* What a step of goroutine g leaves alone besides the breaker's fields.
Step(g, to) ==
    /\ gpc' = [gpc EXCEPT ![g] = to]
    /\ UNCHANGED <<config, now, nFailure, streak, openedAt, last>>

\* OnSuccess line 74: the switch loads the state.
OnSuccessLoad(g) ==
    /\ gpc[g] = "idle"
    /\ gcalls[g] < MaxRaceCalls
    /\ gcalls' = [gcalls EXCEPT ![g] = @ + 1]
    /\ gseen' = [gseen EXCEPT ![g] = state]
    /\ Step(g, IF state = StateClosed THEN "76"
                ELSE IF state = StateHalfOpen THEN "81" ELSE "idle")
    /\ UNCHANGED <<state, failureCount, successCount, lastFailureAt>>

\* OnSuccess line 76: cb.successCount.Add(1).
SuccessAdd(g) ==
    /\ gpc[g] = "76"
    /\ successCount' = successCount + 1
    /\ Step(g, "77")
    /\ UNCHANGED <<state, failureCount, lastFailureAt, gseen, gcalls>>

\* OnSuccess line 77: cb.successCount.Load() against the threshold.
SuccessTest(g) ==
    /\ gpc[g] = "77"
    /\ Step(g, IF successCount >= config.SuccessThreshold THEN "78" ELSE "idle")
    /\ UNCHANGED <<state, failureCount, successCount, lastFailureAt, gseen,
                   gcalls>>

\* OnSuccess line 78: cb.state.Store(StateClosed).
StoreClosed(g) ==
    /\ gpc[g] = "78"
    /\ state' = StateClosed
    /\ Step(g, "idle")
    /\ UNCHANGED <<failureCount, successCount, lastFailureAt, gseen, gcalls>>

\* OnSuccess line 81: cb.failureCount.Store(0).
ResetFailures(g) ==
    /\ gpc[g] = "81"
    /\ failureCount' = 0
    /\ Step(g, "idle")
    /\ UNCHANGED <<state, successCount, lastFailureAt, gseen, gcalls>>

\* OnFailure line 86: the switch loads the state.
OnFailureLoad(g) ==
    /\ gpc[g] = "idle"
    /\ gcalls[g] < MaxRaceCalls
    /\ gcalls' = [gcalls EXCEPT ![g] = @ + 1]
    /\ gseen' = [gseen EXCEPT ![g] = state]
    /\ Step(g, IF state = StateClosed THEN "88"
                ELSE IF state = StateHalfOpen THEN "92" ELSE "idle")
    /\ UNCHANGED <<state, failureCount, successCount, lastFailureAt>>

\* OnFailure line 88: cb.failureCount.Add(1) against the threshold.
FailureAdd(g) ==
    /\ gpc[g] = "88"
    /\ failureCount' = failureCount + 1
    /\ Step(g, IF Trips(failureCount') THEN "89" ELSE "idle")
    /\ UNCHANGED <<state, successCount, lastFailureAt, gseen, gcalls>>

\* OnFailure line 92: cb.lastFailureAt.Store(time.Now().UnixNano()).
StoreLastFailure(g) ==
    /\ gpc[g] = "92"
    /\ lastFailureAt' = [kind |-> "int64", at |-> now]
    /\ Step(g, "93")
    /\ UNCHANGED <<state, failureCount, successCount, gseen, gcalls>>

\* OnFailure lines 89 and 93: cb.state.Store(StateOpen).
StoreOpen(g) ==
    /\ gpc[g] \in {"89", "93"}
    /\ state' = StateOpen
    /\ Step(g, "idle")
    /\ UNCHANGED <<failureCount, successCount, lastFailureAt, gseen, gcalls>>

(***************************************************************************)
(* The earlier Request.Exec (polling).                                     *)
(***************************************************************************)
\* The nil error, and the errors Exec returns: a RetryPollError with its
\* Attempts and its ResponseError, or an error of another kind.
NoError == [kind |-> "nil", Attempts |-> 0, ResponseError |-> "nil"]

RetryPollError(n, cause) ==
    [kind |-> "RetryPollError", Attempts |-> n, ResponseError |-> cause]

OtherError(e) == [kind |-> e, Attempts |-> 0, ResponseError |-> "nil"]

\* Lines 183-189: the locals (err is nil and no line assigns to it), the
\* test of line 188 and the loop's first test.  With a limit below 1 the
\* loop is skipped and lines 212-218 return the RetryPollError.
PollBegin ==
    /\ pc = "idle"
    /\ execs' = execs + 1
    /\ err' = "nil"
    /\ attempt' = 1
    /\ IF isRetry /\ isIdempotent
         THEN IF 1 <= pollLimit
                THEN pc' = "call" /\ UNCHANGED <<returned, exit>>
                ELSE /\ returned' = RetryPollError(pollLimit, err')
                     /\ Return("exhausted")
         ELSE pc' = "single" /\ UNCHANGED <<returned, exit>>
    /\ UNCHANGED <<method, allowNonIdempotentRetry, isRetry, retry, Attempt,
                   ctx, res, timerFired, configured, calls, waits, consulted,
                   asked, events, outcome, priorRetryable, pollLimit>>

\* Lines 190-191: r.Attempt = attempt; res, err := r.client.exec(r).  The
\* := declares a res and an err of the loop's body: the err of line 185
\* keeps its value.
PollTransport ==
    /\ pc = "call"
    /\ Attempt' = attempt
    /\ calls' = calls + 1
    /\ \E o \in Outcomes :
          /\ res' = Response(o, calls + 1)
          /\ outcome' = o
    /\ pc' = "returned"
    /\ UNCHANGED <<method, allowNonIdempotentRetry, isRetry, retry, ctx,
                   attempt, err, timerFired, configured, execs, waits,
                   consulted, asked, events, priorRetryable, exit, pollVars>>

\* Lines 192-211 and, when the loop ends, 212-218: the deadline's return,
\* Cond's verdict (either one) and the return of line 199, the drain, the
\* sleep, the next iteration or the RetryPollError with ResponseError: err.
PollAfterCall ==
    /\ pc = "returned"
    /\ IF outcome.err # "nil" /\ ctx = "deadline"
         THEN /\ res' = NoRes
              /\ returned' = OtherError(CtxErr(ctx))
              /\ Return("deadline")
              /\ UNCHANGED <<attempt, waits>>
         ELSE \E verdict \in BOOLEAN :
                IF ~verdict
                  THEN /\ returned' = NoError
                       /\ Return("veto")
                       /\ UNCHANGED <<res, attempt, waits>>
                  ELSE /\ waits' = waits + 1
                       /\ attempt' = attempt + 1
                       /\ IF attempt + 1 <= pollLimit
                            THEN /\ res' = IF res # NoRes
                                             THEN [res EXCEPT !.body = "closed"]
                                             ELSE res
                                 /\ pc' = "call"
                                 /\ UNCHANGED <<returned, exit>>
                            ELSE /\ res' = NoRes
                                 /\ returned' = RetryPollError(pollLimit, err)
                                 /\ Return("exhausted")
    /\ UNCHANGED <<method, allowNonIdempotentRetry, isRetry, retry, Attempt,
                   ctx, err, timerFired, configured, execs, calls, consulted,
                   asked, events, outcome, priorRetryable, pollLimit>>

\* Lines 221-227, for a request without a retry or of a non-idempotent
\* method: one r.client.exec call, whose res and err are returned (with the
\* DefaultRequestHook of NewRequest in r.requestHook the response hook of
\* line 222 is not run).
PollSingle ==
    /\ pc = "single"
    /\ calls' = calls + 1
    /\ \E o \in Outcomes :
          /\ res' = Response(o, calls + 1)
          /\ outcome' = o
          /\ returned' = IF o.err = "nil" THEN NoError ELSE OtherError(o.err)
    /\ Return("single")
    /\ UNCHANGED <<method, allowNonIdempotentRetry, isRetry, retry, Attempt,
                   ctx, attempt, err, timerFired, configured, execs, waits,
                   consulted, asked, events, priorRetryable, pollLimit>>

(***************************************************************************)
(* Initial states and specifications.                                      *)
(***************************************************************************)
\* A breaker fresh from NewCircuitBreaker.
InitBreaker ==
    /\ config \in {NewCircuitBreaker(c) : c \in BreakerConfigs}
    /\ state = StateClosed
    /\ failureCount = 0
    /\ successCount = 0
    /\ lastFailureAt = NilValue
    /\ now = 0
    /\ nFailure = 0
    /\ streak = 0
    /\ openedAt = -1
    /\ last = NoCall

\* The breaker where line 100 of PreRequest would leave it.  HalfOpen is
\* stored by that line alone, and the panic of line 99 keeps every run that
\* starts from NewCircuitBreaker from reaching it; this initial state is used
\* to look at OnFailure's HalfOpen case and at what PreRequest makes of the
\* timestamp OnFailure stores there.
InitHalfOpen ==
    /\ config \in {NewCircuitBreaker(c) : c \in BreakerConfigs}
    /\ state = StateHalfOpen
    /\ failureCount = config.FailureThreshold
    /\ successCount \in 0..MaxSuccess
    /\ lastFailureAt = NilValue
    /\ now = 0
    /\ nFailure = config.FailureThreshold
    /\ streak = config.FailureThreshold
    /\ openedAt = -1
    /\ last = NoCall

\* A request as the Client's methods and the setters build it, before Exec.
InitRequest ==
    /\ method \in Methods
    /\ allowNonIdempotentRetry \in BOOLEAN
    /\ retry \in {NilRetry} \cup Retries
    /\ isRetry = ~retry.nil
    /\ configured = retry
    /\ Attempt = 0
    /\ ctx = "live"
    /\ pc = "idle"
    /\ attempt = 0
    /\ res = NoRes
    /\ err = "nil"
    /\ timerFired = FALSE
    /\ execs = 0
    /\ calls = 0
    /\ waits = 0
    /\ consulted = 0
    /\ asked = "no"
    /\ events = <<>>
    /\ outcome = NoOutcome
    /\ priorRetryable = TRUE
    /\ exit = "none"

\* One request, never executed.
NoRequest ==
    /\ InitRequest
    /\ method = "GET"
    /\ ~allowNonIdempotentRetry
    /\ retry = NilRetry

\* The hooks of a request: DefaultRequestHook and the response hooks set.
InitHooks ==
    /\ respHooks \in 0..MaxHooks
    /\ respHookRuns = 0
    /\ reqHooked = FALSE

NoHooks == InitHooks /\ respHooks = 0

\* The static waits r.retry.Wait is drawn from, in nanoseconds.
StaticWaits == {0, 2}

\* A Retry with a static Wait and, or not, a backoff.
InitRetry ==
    /\ backoff \in {NoBackoff} \cup Backoffs
    /\ retryWait \in StaticWaits
    /\ rlast = NoRetryCall

NoRetryCalls == InitRetry /\ backoff = NoBackoff /\ retryWait = 0

\* A client's registry as NewClient leaves it, and no response yet.
InitResponse ==
    /\ decompressors = newDecompressor
    /\ regLog = <<>>
    /\ resp = NoResponse
    /\ blast = NoBodyCall

\* A request with the body SetBody gave it, or with none.
InitBody ==
    /\ Body \in Bodies
    /\ allowGetPayload \in BOOLEAN
    /\ alloweDeletePayload \in BOOLEAN
    /\ sent = NoSend

\* A request of one of the methods that are given a body, with a retry set
\* (SetRetry), before Exec.
BodyRequest ==
    /\ method \in PayloadMethods
    /\ allowNonIdempotentRetry = FALSE
    /\ retry = [nil |-> FALSE, Count |-> MaxCount, Cond |-> FALSE]
    /\ isRetry = TRUE
    /\ configured = retry
    /\ Attempt = 0
    /\ ctx = "live"
    /\ pc = "idle"
    /\ attempt = 0
    /\ res = NoRes
    /\ err = "nil"
    /\ timerFired = FALSE
    /\ execs = 0
    /\ calls = 0
    /\ waits = 0
    /\ consulted = 0
    /\ asked = "no"
    /\ events = <<>>
    /\ outcome = NoOutcome
    /\ priorRetryable = TRUE
    /\ exit = "none"

\* A request without a body.
NoBody ==
    /\ InitBody
    /\ Body = NilBody
    /\ ~allowGetPayload
    /\ ~alloweDeletePayload

\* No goroutine is inside a call of the breaker.
NoRace ==
    /\ gpc = [g \in Goroutines |-> "idle"]
    /\ gseen = [g \in Goroutines |-> StateClosed]
    /\ gcalls = [g \in Goroutines |-> 0]

\* A Retry of the earlier kind, and nothing returned yet.
InitPoll ==
    /\ pollLimit \in 0..MaxPollLimit
    /\ returned = NoError

NoPoll == InitPoll /\ pollLimit = 0

\* A breaker with the default configuration.
DefaultBreaker ==
    /\ InitBreaker
    /\ config = NewCircuitBreaker(
           [FailureThreshold |-> 0, SuccessThreshold |-> 0, Timeout |-> 0])

notBreaker ==
    <<execVars, hookVars, retryVars, respVars, bodyVars, raceVars, pollVars>>
notExec ==
    <<breakerVars, hookVars, retryVars, respVars, bodyVars, raceVars, pollVars>>
notRetry ==
    <<breakerVars, execVars, hookVars, respVars, bodyVars, raceVars, pollVars>>
notResponse ==
    <<breakerVars, execVars, hookVars, retryVars, bodyVars, raceVars, pollVars>>
notBody == <<breakerVars, hookVars, retryVars, respVars, raceVars, pollVars>>
notRace == <<execVars, hookVars, retryVars, respVars, bodyVars, pollVars>>
notPoll == <<breakerVars, hookVars, retryVars, respVars, bodyVars, raceVars>>

\* The breaker's calls; no request is executed.
NextBreaker ==
    \/ OnSuccess /\ UNCHANGED notBreaker
    \/ OnFailure /\ UNCHANGED notBreaker
    \/ Execute /\ UNCHANGED notBreaker
    \/ PreRequest /\ UNCHANGED notBreaker
    \/ Tick /\ UNCHANGED notBreaker

\* The steps of Exec and of its environment; the client has no breaker.
NextExec ==
    \/ ExecBegin /\ UNCHANGED notExec
    \/ Transport /\ RunRequestHooks
        /\ UNCHANGED <<breakerVars, retryVars, respVars, bodyVars, raceVars,
                       pollVars>>
    \/ AfterCall /\ UNCHANGED notExec
    \/ Select /\ UNCHANGED notExec
    \/ TimerFires /\ UNCHANGED notExec
    \/ CtxDone /\ UNCHANGED notExec

\* The steps of Exec on a client whose breaker the application reports
\* failures to, while the clock runs.
NextClient ==
    \/ OnFailure /\ UNCHANGED notBreaker
    \/ Tick /\ UNCHANGED notBreaker
    \/ ExecBegin /\ UNCHANGED notExec
    \/ Transport /\ RunRequestHooks
        /\ UNCHANGED <<breakerVars, retryVars, respVars, bodyVars, raceVars,
                       pollVars>>
    \/ AfterCall /\ UNCHANGED notExec
    \/ Select /\ UNCHANGED notExec
    \/ TimerFires /\ UNCHANGED notExec
    \/ CtxDone /\ UNCHANGED notExec

\* The waits of Exec, one after the other.
NextRetry == ExecWait /\ UNCHANGED notRetry

\* The calls of the functions of retry.go that keep no state.
NextParse ==
    \/ ParseRetryHeaderCall /\ UNCHANGED notRetry
    \/ DefaultRetryConditionCall /\ UNCHANGED notRetry

\* Registrations, responses and the calls on their bodies.
NextResponse ==
    \/ SetDecompressor /\ UNCHANGED notResponse
    \/ NewResponse /\ UNCHANGED notResponse
    \/ BytesCall /\ UNCHANGED notResponse
    \/ DecodeCall /\ UNCHANGED notResponse
    \/ MultiReadBodyCall /\ UNCHANGED notResponse

\* A fresh breaker and its calls.
InitSpecBreaker ==
    /\ InitBreaker
    /\ NoRequest
    /\ NoHooks
    /\ NoRetryCalls
    /\ InitResponse
    /\ NoBody
    /\ NoRace
    /\ NoPoll

SpecBreaker == InitSpecBreaker /\ [][NextBreaker]_vars

\* A breaker in HalfOpen and its calls.
InitSpecHalfOpen ==
    /\ InitHalfOpen
    /\ NoRequest
    /\ NoHooks
    /\ NoRetryCalls
    /\ InitResponse
    /\ NoBody
    /\ NoRace
    /\ NoPoll

SpecHalfOpen == InitSpecHalfOpen /\ [][NextBreaker]_vars

\* A request and its Exec calls; the breaker, with the default configuration,
\* is left alone.
InitSpecExec ==
    /\ InitBreaker
    /\ config = NewCircuitBreaker(
           [FailureThreshold |-> 0, SuccessThreshold |-> 0, Timeout |-> 0])
    /\ InitRequest
    /\ InitHooks
    /\ NoRetryCalls
    /\ InitResponse
    /\ NoBody
    /\ NoRace
    /\ NoPoll

SpecExec == InitSpecExec /\ [][NextExec]_vars

\* A client with a breaker (SetCircuitBreaker) that trips at the first or a
\* later failure and stays Open for MaxTimeout ticks, and a GET request on
\* it, with or without a retry.
InitSpecClient ==
    /\ InitBreaker
    /\ config.SuccessThreshold = defaultSuccessThreshold
    /\ config.FailureThreshold <= MaxThreshold
    /\ config.Timeout = MaxTimeout
    /\ InitRequest
    /\ method = "GET"
    /\ ~allowNonIdempotentRetry
    /\ retry \in {NilRetry, [nil |-> FALSE, Count |-> 1, Cond |-> FALSE]}
    /\ NoHooks
    /\ NoRetryCalls
    /\ InitResponse
    /\ NoBody
    /\ NoRace
    /\ NoPoll

SpecClient == InitSpecClient /\ [][NextClient]_vars

\* A Retry and the waits Exec takes from it.
InitSpecRetry ==
    /\ DefaultBreaker
    /\ NoRequest
    /\ NoHooks
    /\ InitRetry
    /\ InitResponse
    /\ NoBody
    /\ NoRace
    /\ NoPoll

SpecRetry == InitSpecRetry /\ [][NextRetry]_vars

\* ParseRetryHeader and defaultRetryCondition, called on their inputs.
InitSpecParse ==
    /\ DefaultBreaker
    /\ NoRequest
    /\ NoHooks
    /\ NoRetryCalls
    /\ InitResponse
    /\ NoBody
    /\ NoRace
    /\ NoPoll

SpecParse == InitSpecParse /\ [][NextParse]_vars

\* A client's registry and the responses built with it.
InitSpecResponse ==
    /\ DefaultBreaker
    /\ NoRequest
    /\ NoHooks
    /\ NoRetryCalls
    /\ InitResponse
    /\ NoBody
    /\ NoRace
    /\ NoPoll

SpecResponse == InitSpecResponse /\ [][NextResponse]_vars

\* The attempts of Exec on a request with a body.
NextBody == ExecAttempt /\ UNCHANGED notBody

\* A request of any method with any body, and the attempts made with it.
InitSpecBody ==
    /\ DefaultBreaker
    /\ BodyRequest
    /\ NoHooks
    /\ NoRetryCalls
    /\ InitResponse
    /\ InitBody
    /\ NoRace
    /\ NoPoll

SpecBody == InitSpecBody /\ [][NextBody]_vars

\* The atomic steps of the goroutines' calls, in any interleaving.
NextRace ==
    \/ \E g \in Goroutines : OnSuccessLoad(g) /\ UNCHANGED notRace
    \/ \E g \in Goroutines : SuccessAdd(g) /\ UNCHANGED notRace
    \/ \E g \in Goroutines : SuccessTest(g) /\ UNCHANGED notRace
    \/ \E g \in Goroutines : StoreClosed(g) /\ UNCHANGED notRace
    \/ \E g \in Goroutines : ResetFailures(g) /\ UNCHANGED notRace
    \/ \E g \in Goroutines : OnFailureLoad(g) /\ UNCHANGED notRace
    \/ \E g \in Goroutines : FailureAdd(g) /\ UNCHANGED notRace
    \/ \E g \in Goroutines : StoreLastFailure(g) /\ UNCHANGED notRace
    \/ \E g \in Goroutines : StoreOpen(g) /\ UNCHANGED notRace

\* One breaker, fresh from NewCircuitBreaker or in HalfOpen, shared by the
\* goroutines.
InitSpecRace ==
    /\ (InitBreaker \/ InitHalfOpen)
    /\ config.Timeout = MaxTimeout
    /\ NoRequest
    /\ NoHooks
    /\ NoRetryCalls
    /\ InitResponse
    /\ NoBody
    /\ NoRace
    /\ NoPoll

SpecRace == InitSpecRace /\ [][NextRace]_vars

\* The steps of the earlier Exec and the end of the request's context.
NextPoll ==
    \/ PollBegin /\ UNCHANGED notPoll
    \/ PollTransport /\ UNCHANGED notPoll
    \/ PollAfterCall /\ UNCHANGED notPoll
    \/ PollSingle /\ UNCHANGED notPoll
    \/ CtxDone /\ UNCHANGED <<notPoll, pollVars>>

\* A request with or without a Retry, executed once by the earlier Exec.
InitSpecPoll ==
    /\ DefaultBreaker
    /\ InitRequest
    /\ retry \in {NilRetry, [nil |-> FALSE, Count |-> 0, Cond |-> TRUE]}
    /\ NoHooks
    /\ NoRetryCalls
    /\ InitResponse
    /\ NoBody
    /\ NoRace
    /\ InitPoll

SpecPoll == InitSpecPoll /\ [][NextPoll]_vars

(***************************************************************************)
(* Claims about the circuit breaker.                                       *)
(***************************************************************************)

\* C1: from a fresh breaker the state is Closed while fewer than
\* FailureThreshold OnFailure calls have been made, and the
\* FailureThreshold-th OnFailure call finds it Closed and leaves it Open.
C1_TripAtThreshold ==
    /\ nFailure < config.FailureThreshold => state = StateClosed
    /\ (nFailure = config.FailureThreshold /\ last.op = "OnFailure")
          => (last.from = StateClosed /\ state = StateOpen)

C1_Witness ==
    /\ nFailure = config.FailureThreshold
    /\ last.op = "OnFailure"
    /\ state = StateOpen
    /\ config.FailureThreshold > 1

\* C2: a PreRequest that finds the breaker Open before Timeout has passed
\* since the trip returns ErrCircuitBreakerOpen and leaves the state Open.
C2_OpenRejects ==
    (last.op = "PreRequest" /\ last.from = StateOpen /\ ~last.elapsed)
        => (last.ret = "ErrCircuitBreakerOpen" /\ state = StateOpen)

\* C3: a PreRequest that finds the breaker Open once Timeout has passed since
\* the trip sets HalfOpen and returns nil; one that finds it Closed or
\* HalfOpen returns nil and leaves the state as it was.
C3_ProbeAfterTimeout ==
    last.op = "PreRequest" =>
        /\ (last.from = StateOpen /\ last.elapsed)
              => (state = StateHalfOpen /\ last.ret = "nil")
        /\ last.from # StateOpen => (state = last.from /\ last.ret = "nil")

RetryExhausted(n) == "retry exhausted: attempts=" \o ToString(n)

\* The attempts Exec may make: Count + 1, Count taken as 0 when it is
\* negative or when no retry was set.
AttemptLimit ==
    (IF configured.nil \/ configured.Count < 0 THEN 0 ELSE configured.Count) + 1

\* C5: with retry enabled, a POST or PATCH request without
\* AllowNonIdempotentRetry is sent to the transport once and never waited on.
C5_NonIdempotentSentOnce ==
    (isRetry /\ method \in {"POST", "PATCH"} /\ ~allowNonIdempotentRetry)
        => (calls <= 1 /\ waits = 0)

C7_Case ==
    /\ isRetry /\ isIdempotent /\ ~retry.Cond
    /\ calls >= 1
    /\ priorRetryable
    /\ outcome.err = "nil" /\ ~RetryableOutcome(outcome)

\* C7: retry enabled, idempotent request, no Cond: when every attempt before
\* the k-th gave a retryable outcome and the k-th gave a response that is not
\* retryable, Exec waits no more and returns that k-th response with a nil
\* error, after k transport calls and k-1 waits.
C7_ReturnsFirstFinalResponse ==
    C7_Case =>
        /\ pc \in {"returned", "done"}
        /\ waits = calls - 1
        /\ pc = "done" =>
              /\ err = "nil"
              /\ res = [status |-> outcome.status, from |-> calls, body |-> "open"]

C7_Witness ==
    /\ C7_Case
    /\ pc = "done"
    /\ calls = 3 /\ waits = 2
    /\ res.status = 200 /\ res.from = 3 /\ err = "nil"

\* C8: retry enabled, idempotent request: when every permitted attempt gave a
\* retryable outcome, Exec returns the retry-exhaustion error that carries the
\* number of attempts made.
C8_ExhaustionError ==
    (/\ pc = "done"
     /\ isRetry /\ isIdempotent
     /\ calls = AttemptLimit
     /\ priorRetryable /\ RetryableOutcome(outcome))
        => err = RetryExhausted(calls)

\* C9: when r.client.exec has returned an error and the context has ended by
\* its deadline, Exec returns that error at once: no further transport call,
\* no wait, no retry decision.
C9_DeadlineStops ==
    [][(pc = "returned" /\ err # "nil" /\ ctx = "deadline")
          => /\ pc' = "done"
             /\ err' = err
             /\ calls' = calls
             /\ waits' = waits
             /\ consulted' = consulted]_vars

C9_Witness ==
    /\ pc = "done"
    /\ exit = "deadline"
    /\ isRetry
    /\ outcome.err = "urlTemp"
    /\ calls = 1 /\ AttemptLimit = 3
    /\ err = "urlTemp"

\* C10: when the context ends while Exec is blocked in the wait between two
\* attempts, Exec returns the context's error, with no further transport call.
C10_CancelEndsWait ==
    [][(pc = "blocked" /\ ctx = "live" /\ ctx' # "live")
          => /\ pc' = "done"
             /\ err' = CtxErr(ctx')
             /\ calls' = calls]_vars

C10_Witness ==
    /\ pc = "done"
    /\ exit = "ctx-blocked"
    /\ ctx = "canceled"
    /\ err = "context canceled"
    /\ calls < AttemptLimit

(***************************************************************************)
(* Claims about retry.go.                                                  *)
(***************************************************************************)

\* C11: a NextWaitDuration call on a backoff with 0 < min <= max, whatever
\* its strategy and the attempt number, with a response that carries no
\* Retry-After header (or with no response), returns a duration d with
\* min <= d <= max.
C11_WaitWithinBounds ==
    (rlast.op = "Exec" /\ ~rlast.b.nil /\ rlast.res.retryAfter = <<>>)
        => /\ ~rlast.ret.panic
           /\ rlast.b.min <= rlast.ret.d
           /\ rlast.ret.d <= rlast.b.max

\* C12: the duration Exec starts its timer with between two attempts is not
\* negative and, when a backoff is configured, not above the backoff's max,
\* whatever the prior response and its Retry-After header.
C12_SleepBounded ==
    (rlast.op = "Exec" /\ ~rlast.ret.panic)
        => /\ rlast.ret.d >= 0
           /\ ~rlast.b.nil => rlast.ret.d <= rlast.b.max

\* C13: a NextWaitDuration call with a response of status 429 or 503 whose
\* Retry-After header parses returns the parsed value, whatever the strategy
\* and the attempt; with any other status, no response or a header that does
\* not parse, it returns what it returns when the header is absent.
C13_RetryAfterPrecedence ==
    (rlast.op = "Exec" /\ ~rlast.b.nil) =>
        LET r == rlast.res
            parsed == ParseRetryHeader(r.retryAfter, rlast.at)
        IN IF r # NilRes /\ r.status \in {429, 503} /\ parsed.ok
             THEN ~rlast.ret.panic /\ rlast.ret.d = parsed.d
             ELSE rlast.ret \in NextWaitDuration(
                      rlast.b, [r EXCEPT !.retryAfter = <<>>],
                      rlast.attempt, rlast.at)

C13_Witness ==
    /\ rlast.op = "Exec"
    /\ ~rlast.b.nil
    /\ rlast.res = [status |-> 503, retryAfter |-> <<"1">>]
    /\ rlast.b.strategy = DecorrelatedJitter
    /\ rlast.b.max < Second
    /\ rlast.attempt = MaxAttempt
    /\ rlast.ret.d = Second

\* C14: defaultRetryCondition returns false for a certificate verification
\* error whatever the response, false for no response and no error, and,
\* for a response and no error, true exactly when the status is 429, 0, or
\* at least 500 and not 501.
C14_RetryClassification ==
    rlast.op = "defaultRetryCondition" =>
        /\ rlast.err = "cert" => ~rlast.ret
        /\ (rlast.res = NoRes /\ rlast.err = "nil") => ~rlast.ret
        /\ (rlast.res # NoRes /\ rlast.err = "nil") =>
              (rlast.ret <=> \/ rlast.res.status \in {429, 0}
                             \/ /\ rlast.res.status >= 500
                                /\ rlast.res.status # 501)

C14_Witness ==
    /\ rlast.op = "defaultRetryCondition"
    /\ rlast.err = "nil"
    /\ rlast.res # NoRes
    /\ rlast.res.status = 503
    /\ rlast.ret

RECURSIVE LastRegistered(_, _)
LastRegistered(log, v) ==
    IF log = <<>>
      THEN IF v = <<"gzip">> THEN "decompressGzip"
           ELSE IF v = <<"deflate">> THEN "decompressFlate"
           ELSE IF v = <<"zlib">> THEN "decompressZlib"
           ELSE "none"
    ELSE IF log[Len(log)].key = v THEN log[Len(log)].fn
    ELSE LastRegistered(SubSeq(log, 1, Len(log) - 1), v)

C17_ReadOnce ==
    [][/\ (resp'.id = resp.id /\ resp.IsRead) => resp'.IsRead
       /\ (resp'.id = resp.id /\ resp.consumed /\ blast' # blast)
             => blast'.ret = "ErrBodyIsRead"]_vars

C17_Witness ==
    /\ resp.consumed
    /\ blast.op = "MultiReadBody"
    /\ blast.ret = "ErrBodyIsRead"
    /\ blast.n = MaxBodyCalls

(***************************************************************************)
(* Claims about the client's breaker, the hooks and Execute.               *)
(***************************************************************************)

\* C18: a call of Client.exec made while the client's breaker is Open and
\* its Timeout has not passed returns the breaker-open error and no
\* response, and Exec returns that error without a retry wait.
C18_OpenBreakerRejects ==
    [][/\ (pc = "call" /\ pc' = "returned" /\ state = StateOpen /\ ~Elapsed)
             => (err' = "ErrCircuitBreakerOpen" /\ res' = NoRes)
       /\ (pc = "returned" /\ err = "ErrCircuitBreakerOpen" /\ pc' # pc)
             => (pc' = "done" /\ waits' = waits)]_vars

\* C19: the request hooks have run in every Client.exec call that was made;
\* an Exec call without retry that ends with a response has invoked every
\* registered response hook; with retry no response hook is invoked.
C19_HookOrder ==
    /\ calls >= 1 => reqHooked
    /\ (pc = "done" /\ ~isRetry /\ res # NoRes) => respHookRuns >= respHooks
    /\ isRetry => respHookRuns = 0

\* C20: an Execute(r, err) step is an OnFailure step when err is not nil
\* (r nil or not) or r's status is above 499, and an OnSuccess step
\* otherwise.
C20_ExecuteEffect ==
    [][\A i \in ExecuteInputs :
          ExecuteWith(i) =>
             IF i.err \/ (i.status # -1 /\ i.status > 499)
               THEN OnFailure ELSE OnSuccess]_vars

(***************************************************************************)
(* Claims about the request body.                                          *)
(***************************************************************************)
\* C21: a retry attempt (any Client.exec call after the request's first)
\* that reaches the transport sends the whole body or no body at all, never
\* an empty or partly consumed one; and when the body before the attempt is
\* a reader that cannot seek and the payload is handled, the attempt fails
\* with the "not replayable" error before the transport is invoked.
C21_RetrySendsWholeBody ==
    sent.attempt > 1 =>
        /\ sent.err = "nil" => sent.body \in {"none", "full"}
        /\ (sent.kind = "reader" /\ isPayloadAllowed) =>
               sent.err = "not replayable"

(***************************************************************************)
(* Claims about the retry decision and the order of Exec's steps.          *)
(***************************************************************************)
\* The retry decision of lines 215-219 was taken for the last outcome, on a
\* request whose Retry has a Cond.
C22_Decided == isRetry /\ retry.Cond /\ calls > 0 /\ consulted = calls

\* C22: with Cond configured, the decision on an attempt's outcome consults
\* Cond exactly when the built-in rules (defaultRetryCondition) do not
\* mandate a retry, whether the outcome is a response or a transport error,
\* and a true verdict of Cond sends Exec into the retry path (drain and wait).
C22_CondConsulted ==
    C22_Decided =>
        LET byDefault ==
                defaultRetryCondition(Response(outcome, calls), outcome.err)
        IN  /\ byDefault => asked = "no"
            /\ ~byDefault => asked # "no"
            /\ asked = "true" => (waits = calls /\ exit # "veto")

\* C28: when Exec returns a response and a nil error, Exec has neither
\* drained nor closed that response's body and has started no wait after the
\* attempt that produced it.
C28_ReturnedResponseUntouched ==
    (pc = "done" /\ res # NoRes /\ err = "nil") =>
        (res.body = "open" /\ events = <<>>)

C23_Computed ==
    LET r == rlast.res
    IN ~(/\ r # NilRes
         /\ HonoursRetryAfter(r.status)
         /\ ParseRetryHeader(r.retryAfter, rlast.at).ok)

C25_HalfOpenNeverCloses ==
    [][state = StateHalfOpen =>
          /\ state' \in {StateHalfOpen, StateOpen}
          /\ state' = StateOpen =>
                (last'.op = "OnFailure" /\ nFailure' = nFailure + 1)
          /\ (last'.op = "OnSuccess" /\ last'.from = StateHalfOpen) =>
                (failureCount' = 0 /\ state' = StateHalfOpen)
          /\ (last'.op = "PreRequest" /\ last'.from = StateHalfOpen) =>
                (last'.ret = "nil" /\ state' = StateHalfOpen)]_vars

\* OnSuccess was called in HalfOpen with a failure count above zero, and
\* has left the count at zero and the state HalfOpen.
C25_Witness ==
    /\ state = StateHalfOpen
    /\ last.op = "OnSuccess"
    /\ last.from = StateHalfOpen
    /\ nFailure > 0
    /\ failureCount = 0

\* C26: the OnFailure call that moves the breaker from Closed to Open is at
\* least the FailureThreshold-th failure in a row: no OnSuccess call was
\* made between it and the FailureThreshold - 1 OnFailure calls before it.
C26_ConsecutiveFailuresTrip ==
    (last.op = "OnFailure" /\ last.from = StateClosed /\ state = StateOpen)
        => streak >= config.FailureThreshold

(***************************************************************************)
(* Claims about concurrent calls on the breaker.                           *)
(***************************************************************************)
\* C27: under every interleaving of the goroutines' OnSuccess and OnFailure
\* calls, no step takes the state from Open back to Closed: the trip an
\* OnFailure call has stored is not overwritten by the store of an OnSuccess
\* call that loaded the state while it was Closed.
C27_NoLostTrip ==
    [][state = StateOpen => state' # StateClosed]_vars

(***************************************************************************)
(* Claims about the earlier Exec.                                          *)
(***************************************************************************)
\* C24: the RetryPollError Exec returns when the attempts are used up
\* carries, as its ResponseError, the error the last r.client.exec call of
\* that Exec call returned (nil when that call returned no error).
C24_ExhaustionCause ==
    (pc = "done" /\ returned.kind = "RetryPollError" /\ calls > 0)
        => returned.ResponseError = outcome.err

====
